---- MODULE Spec2Model ----
(***************************************************************************)
(* A model of the knit_graphs topology engine: Loop, Yarn, Knit_Graph,     *)
(* Course and Wale_Group (src/src/knit_graphs).  A Loop object is the record *)
(* [loop_id, yarn, n]: its two immutable attributes and the serial number  *)
(* n of its construction, which stands for the identity of the Python      *)
(* object (two loops with the same loop_id are equal and hash alike, but   *)
(* `is` tells them apart).  The mutable attributes of the loop with serial *)
(* n are loop[n].  A networkx DiGraph is the record [nodes, edges]: nodes  *)
(* maps an id to the key object stored for it, edges is the sequence of    *)
(* the edges in insertion order, each with the objects it was added with.  *)
(***************************************************************************)
EXTENDS Integers, Sequences, FiniteSets, TLC

MaxLoops == 4          \* Loop objects constructed in a behaviour
MaxStitchLoops == 3    \* Loop objects in a behaviour with stitches or several yarns
MaxStitches == 3       \* entries over all parent stacks
MaxFloatMarks == 2     \* occupants registered over all floats
MaxCrossings == 1      \* crossings in the crossing ledger
MaxSwatchLoops == 8    \* Loop objects of a swatch built row by row
MaxWaleEdges == 3      \* stitch edges of a Wale built by the client
MaxCourseLoops == 3    \* loops of a Course built by the client

Ids == 0 .. (MaxSwatchLoops - 1)

\* Yarn(knit_graph=g) for Y1 and Y2, Yarn() for F
Yarns == {"Y1", "Y2", "F"}
OwnedYarns == {"Y1", "Y2"}

Pull_Direction == {"BtF", "FtB"}
Crossing_Direction == {"Over_Right", "Under_Right", "No_Cross"}

None == [loop_id |-> -1, yarn |-> "", n |-> 0]

\* client_wale and client_course: a Wale and a Course that the client builds itself
VARIABLES loop, yarn, graph, call, client_wale, client_course

vars == <<loop, yarn, graph, call, client_wale, client_course>>

\* the Loop object with serial number k, and every Loop object constructed so far
Obj(k) == [loop_id |-> loop[k].loop_id, yarn |-> loop[k].yarn, n |-> k]

AllLoops == {Obj(k) : k \in 1 .. Len(loop)}

-----------------------------------------------------------------------------
(* _Base_Loop: equality, hash and order are by loop_id only *)

LoopEq(a, b) == a.loop_id = b.loop_id

LoopLt(a, b) == a.loop_id < b.loop_id

\* a Python set or dict of loops holds at most one object per loop_id
InLoops(x, S) == \E e \in S : LoopEq(e, x)

SetAdd(S, x) == IF InLoops(x, S) THEN S ELSE S \cup {x}

SetDiscard(S, x) == {e \in S : ~LoopEq(e, x)}

SetUpdate(S, T) == S \cup {t \in T : ~InLoops(t, S)}

-----------------------------------------------------------------------------
(* networkx.DiGraph *)

EmptyDiGraph == [nodes |-> [i \in Ids |-> None], edges |-> <<>>]

HasNode(G, o) == G.nodes[o.loop_id] # None

NumNodes(G) == Cardinality({i \in Ids : G.nodes[i] # None})

AddNode(G, o) == IF HasNode(G, o) THEN G ELSE [G EXCEPT !.nodes[o.loop_id] = o]

EdgeAt(G, u, v) == {i \in 1 .. Len(G.edges) : LoopEq(G.edges[i].u, u) /\ LoopEq(G.edges[i].v, v)}

HasEdge(G, u, v) == EdgeAt(G, u, v) # {}

EdgeData(G, u, v) == G.edges[CHOOSE i \in EdgeAt(G, u, v) : TRUE].attr

AddEdge(G, u, v, attr) ==
    LET G1 == AddNode(AddNode(G, u), v)
    IN  IF HasEdge(G1, u, v)
        THEN [G1 EXCEPT !.edges = [i \in 1 .. Len(G1.edges) |->
                 IF i \in EdgeAt(G1, u, v) THEN [G1.edges[i] EXCEPT !.attr = attr] ELSE G1.edges[i]]]
        ELSE [G1 EXCEPT !.edges = Append(G1.edges, [u |-> u, v |-> v, attr |-> attr])]

SetEdgeData(G, u, v, attr) ==
    [G EXCEPT !.edges = [i \in 1 .. Len(G.edges) |->
        IF i \in EdgeAt(G, u, v) THEN [G.edges[i] EXCEPT !.attr = attr] ELSE G.edges[i]]]

NotAt(e, o) == ~LoopEq(e.u, o) /\ ~LoopEq(e.v, o)

RemoveNode(G, o) ==
    [nodes |-> [G.nodes EXCEPT ![o.loop_id] = None],
     edges |-> SelectSeq(G.edges, LAMBDA e : NotAt(e, o))]

From(e, o) == LoopEq(e.u, o)

Into(e, o) == LoopEq(e.v, o)

Successors(G, o) ==
    LET out == SelectSeq(G.edges, LAMBDA e : From(e, o))
    IN  [i \in 1 .. Len(out) |-> out[i].v]

Predecessors(G, o) ==
    LET inc == SelectSeq(G.edges, LAMBDA e : Into(e, o))
    IN  [i \in 1 .. Len(inc) |-> inc[i].u]

-----------------------------------------------------------------------------
(* Loop *)

NewLoop(loop_id, y) ==
    [loop_id |-> loop_id, yarn |-> y, parent_loops |-> <<>>, front_floats |-> {}, back_floats |-> {}]

\* front_floats and back_floats (dict[Loop, set[Loop]]) as the set of the
\* pairs <<key id, member id>>

\* mutation: lines 71-72 and 74 left out, the float is recorded under u only
Loop_add_loop_in_front_of_float_OneKey(L, x, u, v) ==
    [L EXCEPT ![x.n].back_floats = @ \cup {<<u.loop_id, v.loop_id>>}]

Loop_add_loop_in_front_of_float(L, x, u, v) ==
    [L EXCEPT ![x.n].back_floats = @ \cup {<<u.loop_id, v.loop_id>>, <<v.loop_id, u.loop_id>>}]

Loop_add_loop_behind_float(L, x, u, v) ==
    [L EXCEPT ![x.n].front_floats = @ \cup {<<u.loop_id, v.loop_id>>, <<v.loop_id, u.loop_id>>}]

is_in_front_of_float(L, x, u, v) == <<u.loop_id, v.loop_id>> \in L[x.n].back_floats

is_behind_float(L, x, u, v) == <<u.loop_id, v.loop_id>> \in L[x.n].front_floats

\* mutation: one parent does not count
has_parent_loops_Several(L, x) == Len(L[x.n].parent_loops) > 1

has_parent_loops(L, x) == Len(L[x.n].parent_loops) > 0

InsertAt(s, i, x) ==
    LET k == IF i > Len(s) THEN Len(s) ELSE i
    IN  SubSeq(s, 1, k) \o <<x>> \o SubSeq(s, k + 1, Len(s))

\* stack_position = -1 stands for None
add_parent_loop(L, x, parent, stack_position) ==
    IF stack_position # -1
    THEN [L EXCEPT ![x.n].parent_loops = InsertAt(@, stack_position, parent)]
    ELSE [L EXCEPT ![x.n].parent_loops = Append(@, parent)]

remove_parent_loops(L, x) == [L EXCEPT ![x.n].parent_loops = <<>>]

NotLoop(e, o) == ~LoopEq(e, o)

remove_parent(L, x, parent) ==
    [L EXCEPT ![x.n].parent_loops = SelectSeq(@, LAMBDA e : NotLoop(e, parent))]

\* the pairs of a float dictionary that name the loop o
Names(pair, o) == pair[1] = o.loop_id \/ pair[2] = o.loop_id

-----------------------------------------------------------------------------
(* Yarn: the record [loop_graph, first_loop, last_loop]; an edge of       *)
(* loop_graph carries attr = [Front_Loops, Back_Loops].  A world W is the  *)
(* record [loop, yarn, graph] of all objects.                              *)

NewYarn == [loop_graph |-> EmptyDiGraph, first_loop |-> None, last_loop |-> None]

NoOccupants == [Front_Loops |-> {}, Back_Loops |-> {}]

has_float(Y, u, v) == HasEdge(Y.loop_graph, u, v)

has_loops(Y) == Y.last_loop # None

YarnLen(Y) == NumNodes(Y.loop_graph)

get_loops_in_front_of_float(Y, u, v) ==
    IF ~has_float(Y, u, v)
    THEN IF has_float(Y, v, u) THEN EdgeData(Y.loop_graph, v, u).Front_Loops ELSE {}
    ELSE EdgeData(Y.loop_graph, u, v).Front_Loops

get_loops_behind_float(Y, u, v) ==
    IF ~has_float(Y, u, v)
    THEN IF has_float(Y, v, u) THEN EdgeData(Y.loop_graph, v, u).Back_Loops ELSE {}
    ELSE EdgeData(Y.loop_graph, u, v).Back_Loops

next_loop(Y, o) ==
    LET successors == Successors(Y.loop_graph, o)
    IN  IF Len(successors) > 0 THEN successors[1] ELSE None

prior_loop(Y, o) ==
    LET predecessors == Predecessors(Y.loop_graph, o)
    IN  IF Len(predecessors) > 0 THEN predecessors[1] ELSE None

\* insert_loop with line 229 left out: the inserted loop always becomes the last loop
insert_loop_AlwaysLast(Y, o, prior) ==
    [loop_graph |-> IF has_loops(Y)
                    THEN AddEdge(AddNode(Y.loop_graph, o), IF prior = None THEN Y.last_loop ELSE prior, o, NoOccupants)
                    ELSE AddNode(Y.loop_graph, o),
     first_loop |-> IF has_loops(Y) THEN Y.first_loop ELSE o,
     last_loop |-> o]

insert_loop(Y, o, prior) ==
    LET G1 == AddNode(Y.loop_graph, o)
        p == IF prior = None THEN Y.last_loop ELSE prior
    IN  IF ~has_loops(Y)
        THEN [loop_graph |-> G1, first_loop |-> o, last_loop |-> o]
        ELSE [loop_graph |-> AddEdge(G1, p, o, NoOccupants),
              first_loop |-> Y.first_loop,
              last_loop |-> IF LoopEq(p, Y.last_loop) THEN o ELSE Y.last_loop]

\* lines 96-97 and 111-112 of Yarn.py: the float (u, v) exists
MarkFront(W, y, x, u, v) ==
    LET G == W.yarn[y].loop_graph
        d == EdgeData(G, u, v)
    IN  [W EXCEPT !.yarn[y].loop_graph = SetEdgeData(G, u, v, [d EXCEPT !.Front_Loops = SetAdd(@, x)]),
                  !.loop = Loop_add_loop_in_front_of_float(@, x, u, v)]

MarkBack(W, y, x, u, v) ==
    LET G == W.yarn[y].loop_graph
        d == EdgeData(G, u, v)
    IN  [W EXCEPT !.yarn[y].loop_graph = SetEdgeData(G, u, v, [d EXCEPT !.Back_Loops = SetAdd(@, x)]),
                  !.loop = Loop_add_loop_behind_float(@, x, u, v)]

\* after the recursive call on (v, u) the method goes on to index
\* loop_graph.edges[u, v], which is no edge of the directed graph
Yarn_add_loop_in_front_of_float(W, y, front_loop, u, v) ==
    IF ~has_float(W.yarn[y], u, v)
    THEN IF has_float(W.yarn[y], v, u)
         THEN [w |-> MarkFront(W, y, front_loop, v, u), err |-> "KeyError"]
         ELSE [w |-> W, err |-> "none"]
    ELSE [w |-> MarkFront(W, y, front_loop, u, v), err |-> "none"]

Yarn_add_loop_behind_float(W, y, back_loop, u, v) ==
    IF ~has_float(W.yarn[y], u, v)
    THEN IF has_float(W.yarn[y], v, u)
         THEN [w |-> MarkBack(W, y, back_loop, v, u), err |-> "KeyError"]
         ELSE [w |-> W, err |-> "none"]
    ELSE [w |-> MarkBack(W, y, back_loop, u, v), err |-> "none"]

-----------------------------------------------------------------------------
(* Loop and Yarn methods that Knit_Graph.remove_loop calls and whose code  *)
(* is not among the source files: modelled from sections 3, 4.2 and 4.3    *)
(* of the specification.                                                   *)

\* this loop is no longer an occupant of the floats it recorded
Unregister(G, pairs, field, o) ==
    [G EXCEPT !.edges = [i \in 1 .. Len(G.edges) |->
        IF <<G.edges[i].u.loop_id, G.edges[i].v.loop_id>> \in pairs
        THEN [G.edges[i] EXCEPT !.attr[field] = SetDiscard(@, o)]
        ELSE G.edges[i]]]

remove_loop_from_front_floats(W, o) ==
    [W EXCEPT !.yarn = [y \in Yarns |->
                 [W.yarn[y] EXCEPT !.loop_graph = Unregister(@, W.loop[o.n].back_floats, "Front_Loops", o)]],
              !.loop[o.n].back_floats = {}]

remove_loop_from_back_floats(W, o) ==
    [W EXCEPT !.yarn = [y \in Yarns |->
                 [W.yarn[y] EXCEPT !.loop_graph = Unregister(@, W.loop[o.n].front_floats, "Back_Loops", o)]],
              !.loop[o.n].front_floats = {}]

\* the float records of the occupants, moved from the floats that ended at
\* the removed loop o to the float between its former neighbours
Reanchor(pairs, o, member, prior, next) ==
    {pr \in pairs : ~Names(pr, o)} \cup
    (IF member /\ prior # None /\ next # None
     THEN {<<prior.loop_id, next.loop_id>>, <<next.loop_id, prior.loop_id>>}
     ELSE {})

\* the occupants of the two floats that end at o
FrontOccupants(Y, o, prior, next) ==
    SetUpdate(IF prior = None THEN {} ELSE get_loops_in_front_of_float(Y, prior, o),
              IF next = None THEN {} ELSE get_loops_in_front_of_float(Y, o, next))

BackOccupants(Y, o, prior, next) ==
    SetUpdate(IF prior = None THEN {} ELSE get_loops_behind_float(Y, prior, o),
              IF next = None THEN {} ELSE get_loops_behind_float(Y, o, next))

\* o leaves the yarn Y; its former neighbours are joined by one float that
\* carries the occupants of both floats
Rejoin(Y, o, prior, next, front, back) ==
    [loop_graph |-> IF prior # None /\ next # None
                    THEN AddEdge(RemoveNode(Y.loop_graph, o), prior, next,
                                 [Front_Loops |-> front, Back_Loops |-> back])
                    ELSE RemoveNode(Y.loop_graph, o),
     first_loop |-> IF LoopEq(Y.first_loop, o) THEN next ELSE Y.first_loop,
     last_loop |-> IF LoopEq(Y.last_loop, o) THEN prior ELSE Y.last_loop]

ReanchorAll(L, o, prior, next, front, back) ==
    [k \in 1 .. Len(L) |->
        [L[k] EXCEPT
           !.back_floats = IF \E x \in front : x.n = k
                           THEN Reanchor(@, o, TRUE, prior, next) ELSE @,
           !.front_floats = IF \E x \in back : x.n = k
                            THEN Reanchor(@, o, TRUE, prior, next) ELSE @]]

Splice(W, y, o, prior, next) ==
    [W EXCEPT !.yarn[y] = Rejoin(@, o, prior, next, FrontOccupants(@, o, prior, next),
                                 BackOccupants(@, o, prior, next)),
              !.loop = ReanchorAll(@, o, prior, next, FrontOccupants(W.yarn[y], o, prior, next),
                                   BackOccupants(W.yarn[y], o, prior, next))]

Yarn_remove_loop(W, y, o) ==
    IF ~HasNode(W.yarn[y].loop_graph, o)
    THEN [w |-> W, err |-> "KeyError"]
    ELSE [w |-> Splice(W, y, o, prior_loop(W.yarn[y], o), next_loop(W.yarn[y], o)), err |-> "none"]

\* Loop_Braid_Graph: the crossing ledger as a set of [left, right, crossing]
Braid_add_crossing(B, left_loop, right_loop, crossing_direction) ==
    {c \in B : ~(c.left = left_loop.loop_id /\ c.right = right_loop.loop_id)} \cup
    {[left |-> left_loop.loop_id, right |-> right_loop.loop_id, crossing |-> crossing_direction]}

Braid_remove_loop(B, o) == {c \in B : c.left # o.loop_id /\ c.right # o.loop_id}

-----------------------------------------------------------------------------
(* Knit_Graph: the record [stitch_graph, loop_ids, braid_graph, last_loop, *)
(* yarns]; an edge of stitch_graph carries attr = [pull_direction].        *)

NewKnitGraph ==
    [stitch_graph |-> EmptyDiGraph, loop_ids |-> [i \in Ids |-> None], braid_graph |-> {},
     last_loop |-> None, yarns |-> {}]

has_loop(K) == K.last_loop # None

add_yarn(K, y) == [K EXCEPT !.yarns = @ \cup {y}]

add_loop(K, o) ==
    LET K1 == [K EXCEPT !.stitch_graph = AddNode(@, o), !.loop_ids[o.loop_id] = o]
        K2 == IF o.yarn \notin K1.yarns THEN add_yarn(K1, o.yarn) ELSE K1
    IN  IF K2.last_loop = None \/ LoopLt(K2.last_loop, o) THEN [K2 EXCEPT !.last_loop = o] ELSE K2

\* __contains__ for a Loop and for an int
ContainsLoop(K, o) == HasNode(K.stitch_graph, o)

ContainsId(K, i) == i \in Ids /\ K.loop_ids[i] # None

has_stitch_edge(K, parent, child) == HasEdge(K.stitch_graph, parent, child)

\* __getitem__ for an int (lines 266-274): the outcome [val, err]
getitem(K, i) ==
    IF ~ContainsId(K, i) THEN [val |-> None, err |-> "KeyError"] ELSE [val |-> K.loop_ids[i], err |-> "none"]

\* lines 311-314 and 327-330: the loop that stands for an argument, which is
\* the Loop x or, when x is None, the int i
LoopFor(K, x, i) == IF x = None THEN getitem(K, i) ELSE [val |-> x, err |-> "none"]

\* line 315, p and c being the outcomes of lines 311-314
HasStitchEdgeOf(K, p, c) ==
    IF p.err # "none" THEN [val |-> FALSE, err |-> p.err]
    ELSE IF c.err # "none" THEN [val |-> FALSE, err |-> c.err]
    ELSE [val |-> has_stitch_edge(K, p.val, c.val), err |-> "none"]

\* has_stitch_edge(parent, child), each a Loop, or None and an int
has_stitch_edge_by(K, px, pi, cx, ci) == HasStitchEdgeOf(K, LoopFor(K, px, pi), LoopFor(K, cx, ci))

NoStitchEdge == [pull_direction |-> "None"]

\* lines 331-334, p and c being the outcomes of lines 327-330
GetStitchEdgeOf(K, p, c) ==
    IF p.err # "none" THEN [val |-> NoStitchEdge, err |-> p.err]
    ELSE IF c.err # "none" THEN [val |-> NoStitchEdge, err |-> c.err]
    ELSE IF has_stitch_edge(K, p.val, c.val)
         THEN [val |-> EdgeData(K.stitch_graph, p.val, c.val), err |-> "none"]
         ELSE [val |-> NoStitchEdge, err |-> "none"]

\* get_stitch_edge(parent, child), each a Loop, or None and an int
get_stitch_edge_by(K, px, pi, cx, ci) == GetStitchEdgeOf(K, LoopFor(K, px, pi), LoopFor(K, cx, ci))

\* __contains__ for a Loop, or None and an int (lines 221-224)
Contains(K, x, i) ==
    IF x = None THEN [val |-> ContainsId(K, i), err |-> "none"] ELSE [val |-> ContainsLoop(K, x), err |-> "none"]

\* __contains__ for a pair (line 226)
ContainsPair(K, px, pi, cx, ci) == has_stitch_edge_by(K, px, pi, cx, ci)

get_child_loop(K, o) ==
    LET successors == Successors(K.stitch_graph, o)
    IN  IF Len(successors) = 0 THEN None ELSE successors[1]

has_child_loop(K, o) == get_child_loop(K, o) # None

\* mutation: the loops that have a child
is_terminal_loop_HasChild(K, o) == has_child_loop(K, o)

is_terminal_loop(K, o) == ~has_child_loop(K, o)

connect_loops(W, parent_loop, child_loop, pull_direction, stack_position) ==
    IF ~ContainsLoop(W.graph, parent_loop) THEN [w |-> W, err |-> "KeyError"]
    ELSE IF ~ContainsLoop(W.graph, child_loop) THEN [w |-> W, err |-> "KeyError"]
    ELSE [w |-> [W EXCEPT !.graph.stitch_graph =
                              AddEdge(@, parent_loop, child_loop, [pull_direction |-> pull_direction]),
                          !.loop = add_parent_loop(@, child_loop, parent_loop, stack_position)],
          err |-> "none"]

\* the last loops of the yarns of the graph (line 124) and the results max()
\* may return: with equal ids the first one met while iterating the set
YarnLastLoops(W) == {W.yarn[y].last_loop : y \in W.graph.yarns} \ {None}

MaxOf(S) == {m \in S : \A e \in S : ~LoopLt(m, e)}

\* line 101
RemoveCrossings(W, o) == [W EXCEPT !.graph.braid_graph = Braid_remove_loop(@, o)]

\* line 103
RemoveParents(W, o) == [W EXCEPT !.loop = remove_parent_loops(@, o)]

\* lines 104-107 left out: the child keeps the loop in its parent stack
RemoveFromChild_Skipped(W, o) == W

\* lines 104-107
RemoveFromChild(W, o) ==
    IF has_child_loop(W.graph, o)
    THEN [W EXCEPT !.loop = remove_parent(@, get_child_loop(W.graph, o), o)]
    ELSE W

\* line 108
RemoveStitchNode(W, o) == [W EXCEPT !.graph.stitch_graph = RemoveNode(@, o)]

\* lines 101-108
RetractStitches(W, o) == RemoveStitchNode(RemoveFromChild(RemoveParents(RemoveCrossings(W, o), o), o), o)

\* line 109
DelLoopId(W, o) == [W EXCEPT !.graph.loop_ids[o.loop_id] = None]

\* lines 111-112
RemoveFromFloats(W, o) == remove_loop_from_back_floats(remove_loop_from_front_floats(W, o), o)

\* lines 116-117
RemoveEmptyYarn(W, o) ==
    IF YarnLen(W.yarn[o.yarn]) = 0 THEN [W EXCEPT !.graph.yarns = @ \ {o.yarn}] ELSE W

\* lines 115-117: r is the outcome of yarn.remove_loop(loop) in the world W
RetractFromYarn(W, r, o) ==
    IF r.err # "none" THEN [w |-> W, err |-> r.err] ELSE [w |-> RemoveEmptyYarn(r.w, o), err |-> "none"]

\* lines 114-117 without line 115: the loop stays on its yarn
RetractYarn_KeepsLoop(W, o) == [w |-> RemoveEmptyYarn(W, o), err |-> "none"]

\* lines 114-117
RetractYarn(W, o) == RetractFromYarn(W, Yarn_remove_loop(W, o.yarn, o), o)

\* lines 101-117: everything before the last-loop pointer is reset
RetractLoop(W, o) ==
    IF W.graph.loop_ids[o.loop_id] = None
    THEN [w |-> RetractStitches(W, o), err |-> "KeyError"]
    ELSE RetractYarn(RemoveFromFloats(DelLoopId(RetractStitches(W, o), o), o), o)

\* lines 97-98: the argument is no loop, and no loop id, of the graph
Absent(K, x, i) == (x = None /\ ~ContainsId(K, i)) \/ (x # None /\ ~ContainsLoop(K, x))

\* the loop that is removed: the argument, or the loop stored for the id
Target(K, x, i) == IF x = None THEN K.loop_ids[i] ELSE x

\* lines 119-124: r is the outcome of lines 101-117 for the loop o
ResetLastLoop(r, o, new_last) ==
    IF r.err # "none" THEN r
    ELSE IF o # r.w.graph.last_loop THEN r
    ELSE IF r.w.graph.yarns = {}
         THEN IF NumNodes(r.w.graph.stitch_graph) # 0
              THEN [w |-> r.w, err |-> "AssertionError"]
              ELSE [w |-> [r.w EXCEPT !.graph.last_loop = None], err |-> "none"]
    ELSE IF YarnLastLoops(r.w) = {}
         THEN [w |-> r.w, err |-> "ValueError"]
         ELSE [w |-> [r.w EXCEPT !.graph.last_loop = new_last], err |-> "none"]

\* remove_loop(x): x is a Loop, or None when the id i is given instead;
\* new_last is the result of max() where line 124 is reached
remove_loop(W, x, i, new_last) ==
    IF Absent(W.graph, x, i)
    THEN [w |-> W, err |-> "KeyError"]
    ELSE ResetLastLoop(RetractLoop(W, Target(W.graph, x, i)), Target(W.graph, x, i), new_last)

\* the values max() can return at line 124: r is the outcome of lines 101-117
MaxResults(r, o) ==
    IF r.err = "none" /\ o = r.w.graph.last_loop /\ r.w.graph.yarns # {} /\ YarnLastLoops(r.w) # {}
    THEN MaxOf(YarnLastLoops(r.w))
    ELSE {None}

NewLastLoops(W, x, i) ==
    IF Absent(W.graph, x, i)
    THEN {None}
    ELSE MaxResults(RetractLoop(W, Target(W.graph, x, i)), Target(W.graph, x, i))

-----------------------------------------------------------------------------
(* Yarn.make_loop_on_end *)

knit_graph(y) == y \in OwnedYarns

next_loop_id(W, y) ==
    IF knit_graph(y)
    THEN IF W.graph.last_loop = None THEN 0 ELSE W.graph.last_loop.loop_id + 1
    ELSE IF W.yarn[y].last_loop = None THEN 0 ELSE W.yarn[y].last_loop.loop_id + 1

add_loop_to_end(W, y, o) ==
    LET W1 == [W EXCEPT !.yarn[y] = insert_loop(@, o, W.yarn[y].last_loop)]
    IN  IF knit_graph(y) THEN [W1 EXCEPT !.graph = add_loop(@, o)] ELSE W1

\* Loop(loop_id, yarn) at line 186, then add_loop_to_end
MakeLoop(W, y, loop_id) ==
    add_loop_to_end([W EXCEPT !.loop = Append(@, NewLoop(loop_id, y))], y,
                    [loop_id |-> loop_id, yarn |-> y, n |-> Len(W.loop) + 1])

make_loop_on_end(W, y) == MakeLoop(W, y, next_loop_id(W, y))

-----------------------------------------------------------------------------
(* Course and Knit_Graph.get_courses.  A Course is the sequence            *)
(* loops_in_order; its _loop_set holds the same loops and answers `in` by  *)
(* loop_id.                                                                *)

\* the key objects of the stitch graph with the ids from i on, ascending
RECURSIVE SortedFrom(_, _)
SortedFrom(K, i) ==
    IF i \notin Ids THEN <<>>
    ELSE IF K.stitch_graph.nodes[i] = None THEN SortedFrom(K, i + 1)
    ELSE <<K.stitch_graph.nodes[i]>> \o SortedFrom(K, i + 1)

\* mutation: latest formed loop first
sorted_loops_Reversed(K) == [j \in 1 .. Len(SortedFrom(K, 0)) |-> SortedFrom(K, 0)[Len(SortedFrom(K, 0)) + 1 - j]]

sorted_loops(K) == SortedFrom(K, 0)

\* mutation: only the last loop of the course is looked at
InCourse_LastOnly(course, x) == course # <<>> /\ LoopEq(course[Len(course)], x)

\* Course.__contains__: a loop with the id of x is in the course
InCourse(course, x) == \E j \in 1 .. Len(course) : LoopEq(course[j], x)

\* mutation: no loop ever starts a new course
HasParentIn_Never(L, course, x) == FALSE

\* lines 195-196: some parent of x is in the course
HasParentIn(L, course, x) == \E j \in 1 .. Len(L[x.n].parent_loops) : InCourse(course, L[x.n].parent_loops[j])

\* Course.add_loop without index; the assertion of line 26 holds at the call
\* of line 200, where the course is new or line 196 found no parent in it
Course_add_loop(L, course, x) == Append(course, x)

\* Course.add_loop on a course that a caller builds: the outcome
\* [course, err]; index = -1 stands for None
Course_add_loop_at(L, course, x, index) ==
    IF HasParentIn(L, course, x)
    THEN [course |-> course, err |-> "AssertionError"]
    ELSE [course |-> IF index = -1 THEN Append(course, x) ELSE InsertAt(course, index, x), err |-> "none"]

\* lines 194-201: the scan over the loops still to visit
RECURSIVE ScanCourses(_, _, _, _)
ScanCourses(L, todo, courses, course) ==
    IF todo = <<>> THEN Append(courses, course)
    ELSE IF HasParentIn(L, course, Head(todo))
    THEN ScanCourses(L, Tail(todo), Append(courses, course), Course_add_loop(L, <<>>, Head(todo)))
    ELSE ScanCourses(L, Tail(todo), courses, Course_add_loop(L, course, Head(todo)))

get_courses(W) == ScanCourses(W.loop, sorted_loops(W.graph), <<>>, <<>>)

\* Course.in_round_with and Course.in_row_with start from the first loop of
\* next_course that has parents; next_course[i] raises IndexError past its end
WithParents(L, course) == {j \in 1 .. Len(course) : has_parent_loops(L, course[j])}

NextStart(L, course) == course[CHOOSE j \in WithParents(L, course) : \A k \in WithParents(L, course) : j <= k]

\* mutation: the test of in_row_with, against the last loop of the course
in_round_with_LastLoop(L, self, next_course) ==
    IF self = <<>> \/ WithParents(L, next_course) = {} THEN "IndexError"
    ELSE IF \E j \in 1 .. Len(L[NextStart(L, next_course).n].parent_loops) :
                LoopEq(L[NextStart(L, next_course).n].parent_loops[j], self[Len(self)])
    THEN "True" ELSE "False"

in_round_with(L, self, next_course) ==
    IF self = <<>> \/ WithParents(L, next_course) = {} THEN "IndexError"
    ELSE IF \E j \in 1 .. Len(L[NextStart(L, next_course).n].parent_loops) :
                LoopEq(L[NextStart(L, next_course).n].parent_loops[j], self[1])
    THEN "True" ELSE "False"

in_row_with(L, self, next_course) ==
    IF self = <<>> \/ WithParents(L, next_course) = {} THEN "IndexError"
    ELSE IF \E j \in 1 .. Len(L[NextStart(L, next_course).n].parent_loops) :
                LoopEq(L[NextStart(L, next_course).n].parent_loops[j], self[Len(self)])
    THEN "True" ELSE "False"

-----------------------------------------------------------------------------
(* The swatch generators of the tests (basic_knit_graph_generators) are    *)
(* not among the source files.  A swatch is built as section 8 of the      *)
(* specification describes it: a cast-on row on one yarn of the graph,     *)
(* then rows in which every new loop is pulled through one loop of the     *)
(* row before.  In a swatch the loop with serial k has the id k - 1.       *)

NoStitches(L) == \A k \in 1 .. Len(L) : L[k].parent_loops = <<>>

\* the width of the swatch: the number of loops of the cast-on row
Width(L) == Cardinality({k \in 1 .. Len(L) : L[k].parent_loops = <<>>})

\* the serials of the row below the loop that is made next
RowBelow(L) == {k \in 1 .. Len(L) : (k - 1) \div Width(L) = (Len(L) \div Width(L)) - 1}

\* the loop that make_loop_on_end on yarn y returns in the world W
Made(W, y) == [loop_id |-> next_loop_id(W, y), yarn |-> y, n |-> Len(W.loop) + 1]

\* child = yarn.make_loop_on_end(); knit_graph.connect_loops(parent, child)
KnitStitch(W, y, parent) == connect_loops(make_loop_on_end(W, y), parent, Made(W, y), "BtF", -1)

-----------------------------------------------------------------------------
(* Wales and wale groups.  Knit_Graph.get_wale_groups builds                *)
(* Wale_Group(terminal_loop, knit_graph) and get_wales_ending_with_loop     *)
(* builds Wale(first_loop, knit_graph) from Loop.ancestor_loops(); these    *)
(* constructors and ancestor_loops are not among the source files and are   *)
(* modelled from sections 3, 4.4 and 4.5 of the specification.  A Wale is   *)
(* the sequence of its loops from first_loop to last_loop; a Wale_Group is  *)
(* the record [terminal_loop, wales].                                      *)

\* mutation: every loop of the graph
terminal_loops_All(K) == {K.stitch_graph.nodes[i] : i \in Ids} \ {None}

\* Knit_Graph.terminal_loops
terminal_loops(K) == {x \in {K.stitch_graph.nodes[i] : i \in Ids} \ {None} : is_terminal_loop(K, x)}

ParentsOf(L, S) == UNION {{L[x.n].parent_loops[j] : j \in 1 .. Len(L[x.n].parent_loops)} : x \in S}

\* the loops reached from S by walking up to k parent links upward
RECURSIVE Ancestors(_, _, _)
Ancestors(L, S, k) == IF k = 0 THEN S ELSE Ancestors(L, S \cup ParentsOf(L, S), k - 1)

\* Loop.ancestor_loops: the ancestors of x that have no parents themselves
ancestor_loops(L, x) == {a \in Ancestors(L, ParentsOf(L, {x}), Cardinality(Ids)) : ~has_parent_loops(L, a)}

\* the chain from o along the recorded child of each loop, of at most k + 1 loops
RECURSIVE WaleFrom(_, _, _)
WaleFrom(K, o, k) ==
    IF k = 0 \/ ~has_child_loop(K, o) THEN <<o>>
    ELSE <<o>> \o WaleFrom(K, get_child_loop(K, o), k - 1)

\* Wale(first_loop, knit_graph): the whole column from first_loop upward
Wale(K, first_loop) == WaleFrom(K, first_loop, Cardinality(Ids) - 1)

\* Knit_Graph.get_wales_ending_with_loop
get_wales_ending_with_loop(W, last_loop) ==
    IF Len(W.loop[last_loop.n].parent_loops) = 0
    THEN {Wale(W.graph, last_loop)}
    ELSE {Wale(W.graph, a) : a \in ancestor_loops(W.loop, last_loop)}

\* Wale_Group(terminal_loop, knit_graph): the wales that end with the
\* terminal loop; their first loops have no parents, so the upward closure
\* of Wale_Group.build_group_from_top_wale adds no further wale
Wale_Group(W, terminal_loop) ==
    [terminal_loop |-> terminal_loop, wales |-> get_wales_ending_with_loop(W, terminal_loop)]

\* the walk of Loop.ancestor_loops up the parent stacks, from the loops S to
\* their parents and on, comes to an end within k steps: on every path it
\* reaches a loop with no parents
RECURSIVE WalkEnds(_, _, _)
WalkEnds(L, S, k) == IF S = {} THEN TRUE ELSE IF k = 0 THEN FALSE ELSE WalkEnds(L, ParentsOf(L, S), k - 1)

\* get_wales_ending_with_loop(x) returns for every loop x of S: a walk of
\* more steps than there are loops has met a loop twice and never ends
WalesFound(L, S) == \A x \in S : WalkEnds(L, ParentsOf(L, {x}), Cardinality(Ids))

\* Wale_Group.add_parent_wales, lines 53-59
add_parent_wales(W, wale) == UNION {get_wales_ending_with_loop(W, p) : p \in ParentsOf(W.loop, {wale[1]})}

\* build_group_from_top_wale lines 68-71 for the wale popped from
\* added_wales, with k more wales to process
RECURSIVE ClosureEnds(_, _, _)
ClosureStep(W, added_wales, next_wale, k) ==
    /\ WalesFound(W.loop, ParentsOf(W.loop, {next_wale[1]}))
    /\ ClosureEnds(W, (added_wales \ {next_wale}) \cup add_parent_wales(W, next_wale), k - 1)

\* the loop of lines 68-71 ends after at most k wales
ClosureEnds(W, added_wales, k) ==
    IF added_wales = {} THEN TRUE
    ELSE IF k = 0 THEN FALSE
    ELSE ClosureStep(W, added_wales, CHOOSE w \in added_wales : TRUE, k)

\* Wale_Group.build_group_from_top_wale for the wales that end with the
\* terminal loop: the group is built after processing finitely many wales
build_group_from_top_wale(W, terminal_loop) ==
    /\ WalesFound(W.loop, {terminal_loop})
    /\ ClosureEnds(W, get_wales_ending_with_loop(W, terminal_loop), Cardinality(Ids) * Cardinality(Ids))

\* Wale_Group.add_wale lines 36-41: the edges of wale_graph that leave wale
WaleSuccessors(wales, wale) == {v \in wales : v # wale /\ LoopEq(wale[Len(wale)], v[1])}

\* dfs_preorder_nodes(wale_graph, wale)
RECURSIVE WaleReach(_, _, _)
WaleReach(wales, S, k) ==
    IF k = 0 THEN S ELSE WaleReach(wales, S \cup UNION {WaleSuccessors(wales, w) : w \in S}, k - 1)

RECURSIVE TotalLen(_)
TotalLenWith(S, w) == Len(w) + TotalLen(S \ {w})

\* sum(len(successor) for successor in ...)
TotalLen(S) == IF S = {} THEN 0 ELSE TotalLenWith(S, CHOOSE w \in S : TRUE)

\* mutation: the sum over every wale of the group
PathLens_AllWales(wales) == {TotalLen(wales)}

\* lines 95-97: one path length for the wale of each bottom loop
PathLens(wales) == {TotalLen(WaleReach(wales, {w}, Cardinality(wales))) : w \in wales}

\* mutation: the number of wales of the group
Wale_Group_len_CountsWales(group) == Cardinality(group.wales)

\* Wale_Group.__len__
Wale_Group_len(group) ==
    IF group.wales = {} THEN 0
    ELSE CHOOSE m \in PathLens(group.wales) : \A n \in PathLens(group.wales) : n <= m

get_wale_groups(W) == {Wale_Group(W, t) : t \in terminal_loops(W.graph)}

-----------------------------------------------------------------------------
(* The Wale class of artin_wale_braids/Wale.py: the record [stitches,      *)
(* first_loop, last_loop]; an edge of stitches carries                      *)
(* attr = [pull_direction].                                                 *)

EmptyWale == [stitches |-> EmptyDiGraph, first_loop |-> None, last_loop |-> None]

\* Wale.add_loop_to_end
Wale_add_loop_to_end(w, o, pull_direction) ==
    IF w.last_loop = None
    THEN [stitches |-> AddNode(w.stitches, o), first_loop |-> o, last_loop |-> o]
    ELSE [w EXCEPT !.stitches = AddEdge(@, w.last_loop, o, [pull_direction |-> pull_direction]),
                   !.last_loop = o]

\* Wale.add_loop_to_beginning
Wale_add_loop_to_beginning(w, o, pull_direction) ==
    IF w.first_loop = None
    THEN [stitches |-> AddNode(w.stitches, o), first_loop |-> o, last_loop |-> o]
    ELSE [w EXCEPT !.stitches = AddEdge(@, o, w.first_loop, [pull_direction |-> pull_direction]),
                   !.first_loop = o]

\* Wale(first_loop)
Wale_init(first_loop) ==
    IF first_loop = None THEN EmptyWale ELSE Wale_add_loop_to_end(EmptyWale, first_loop, "None")

\* Wale.get_stitch_pull_direction, where the edge exists
get_stitch_pull_direction(w, u, v) == EdgeData(w.stitches, u, v).pull_direction

Wale_len(w) == NumNodes(w.stitches)

\* dfs_preorder_nodes: the nodes met from o, depth first, the successors of
\* a node in the order of its edges; seen is the sequence of the nodes met
RECURSIVE DfsVisit(_, _, _), DfsEach(_, _, _)
DfsVisit(G, o, seen) ==
    IF \E j \in 1 .. Len(seen) : LoopEq(seen[j], o) THEN seen
    ELSE DfsEach(G, Successors(G, o), Append(seen, G.nodes[o.loop_id]))

DfsEach(G, todo, seen) ==
    IF todo = <<>> THEN seen ELSE DfsEach(G, Tail(todo), DfsVisit(G, Head(todo), seen))

\* Wale.__iter__: list(self)
Wale_iter(w) == IF w.first_loop = None THEN <<>> ELSE DfsVisit(w.stitches, w.first_loop, <<>>)

NoWale == [stitches |-> EmptyDiGraph, first_loop |-> None, last_loop |-> None, none |-> TRUE]

\* the wale that grows at line 72 or 76 of split_wale
Growing(st) == IF st.found THEN st.second ELSE st.first

\* mutation: the first wale ends before the split loop
SplitStep_EndsBefore(st, l, split_loop, grown) ==
    IF l = split_loop
    THEN [first |-> st.first, second |-> Wale_init(split_loop), found |-> TRUE, err |-> "none"]
    ELSE IF st.found THEN [st EXCEPT !.second = grown] ELSE [st EXCEPT !.first = grown]

\* mutation: the second wale starts after the split loop
SplitStep_DropsJunction(st, l, split_loop, grown) ==
    IF l = split_loop
    THEN [first |-> grown, second |-> EmptyWale, found |-> TRUE, err |-> "none"]
    ELSE IF st.found THEN [st EXCEPT !.second = grown] ELSE [st EXCEPT !.first = grown]

\* lines 71-76 for the loop l, the growing wale having grown to grown
SplitStep(st, l, split_loop, grown) ==
    IF l = split_loop
    THEN [first |-> grown, second |-> Wale_init(split_loop), found |-> TRUE, err |-> "none"]
    ELSE IF st.found THEN [st EXCEPT !.second = grown] ELSE [st EXCEPT !.first = grown]

\* lines 70-76: the loop over self[1:]
RECURSIVE SplitScan(_, _, _, _)
SplitScan(w, todo, split_loop, st) ==
    IF todo = <<>> THEN st
    ELSE IF ~HasEdge(w.stitches, Growing(st).last_loop, Head(todo))
         THEN [st EXCEPT !.err = "KeyError"]
         ELSE SplitScan(w, Tail(todo), split_loop,
                        SplitStep(st, Head(todo), split_loop,
                                  Wale_add_loop_to_end(Growing(st), Head(todo),
                                      get_stitch_pull_direction(w, Growing(st).last_loop, Head(todo)))))

\* lines 77-79
SplitResult(w, st) ==
    IF st.err # "none" THEN [first |-> NoWale, second |-> NoWale, err |-> st.err]
    ELSE IF ~st.found THEN [first |-> w, second |-> NoWale, err |-> "none"]
    ELSE [first |-> st.first, second |-> st.second, err |-> "none"]

\* Wale.split_wale
split_wale(w, split_loop) ==
    SplitResult(w, SplitScan(w, IF Wale_iter(w) = <<>> THEN <<>> ELSE Tail(Wale_iter(w)), split_loop,
                             [first |-> Wale_init(w.first_loop), second |-> NoWale, found |-> FALSE, err |-> "none"]))

-----------------------------------------------------------------------------
(* The Wale_Group class of artin_wale_braids/Wale_Group.py, built from a    *)
(* Wale of the class above: the record [stitch_graph, wales, top_loops,     *)
(* bottom_loops, terminal_wale].  The first loop of the terminal wale has   *)
(* no parents, so that add_parent_wales adds no wale.                       *)

\* Wale_Group.add_wale lines 34-35: the stitches of the wale w from the k-th
\* on are recorded in the stitch graph G of the group
RECURSIVE AddStitches(_, _, _)
AddStitches(G, w, k) ==
    IF k > Len(w.stitches.edges) THEN G
    ELSE AddStitches(AddEdge(G, w.stitches.edges[k].u, w.stitches.edges[k].v, w.stitches.edges[k].attr), w, k + 1)

\* Wale_Group(terminal_wale, knit_graph): lines 19-25 and add_wale
Wale_Group_init(w) ==
    [stitch_graph |-> AddStitches(EmptyDiGraph, w, 1),
     wales |-> <<w>>,
     top_loops |-> [i \in Ids |-> IF i = w.last_loop.loop_id THEN w ELSE NoWale],
     bottom_loops |-> [i \in Ids |-> IF i = w.first_loop.loop_id THEN w ELSE NoWale],
     terminal_wale |-> w]

\* lines 84-86: the predecessors of the loops of cur_course, loop by loop
RECURSIVE NextCourse(_, _)
NextCourse(G, cur_course) ==
    IF cur_course = <<>> THEN <<>>
    ELSE Predecessors(G, Head(cur_course)) \o NextCourse(G, Tail(cur_course))

\* lines 82-87: the while loop with k more rounds to go; predecessors(loop)
\* raises for a loop that is no node of the stitch graph of the group, and a
\* layering of more rounds than there are loops never ends
RECURSIVE Layering(_, _, _, _)
Layering(G, courses, cur_course, k) ==
    IF cur_course = <<>> THEN [val |-> courses, err |-> "none"]
    ELSE IF \E j \in 1 .. Len(cur_course) : ~HasNode(G, cur_course[j]) THEN [val |-> <<>>, err |-> "NetworkXError"]
    ELSE IF k = 0 THEN [val |-> <<>>, err |-> "no return"]
    ELSE Layering(G, Append(courses, cur_course), NextCourse(G, cur_course), k - 1)

\* Wale_Group.get_loops_over_courses
get_loops_over_courses(group) ==
    IF group.terminal_wale = NoWale THEN [val |-> <<>>, err |-> "none"]
    ELSE Layering(group.stitch_graph, <<>>, <<group.terminal_wale.last_loop>>, Cardinality(Ids))

-----------------------------------------------------------------------------
(* The state machine: a client that calls the public operations.  call     *)
(* records the last call: its name, the exception it raised ("none" when   *)
(* it returned) and, for remove_loop, what the client could see of the     *)
(* loop before the call.                                                   *)

World == [loop |-> loop, yarn |-> yarn, graph |-> graph]

\* the world becomes W; the Wale and the Course that the client holds are as before
Becomes(W) == loop' = W.loop /\ yarn' = W.yarn /\ graph' = W.graph /\ UNCHANGED <<client_wale, client_course>>

\* what a call that is no remove_loop, or that names no loop of the graph, records
NoLoopSeen == [loop |-> None, parent_loops |-> <<>>, children |-> <<>>, prior |-> None, next |-> None]

\* the loop o before remove_loop: its parent stack, its children in the
\* stitch graph and its neighbours on its yarn
LoopSeen(W, o) ==
    [loop |-> o, parent_loops |-> W.loop[o.n].parent_loops,
     children |-> Successors(W.graph.stitch_graph, o),
     prior |-> prior_loop(W.yarn[o.yarn], o), next |-> next_loop(W.yarn[o.yarn], o)]

Seen(W, x, i) == IF Absent(W.graph, x, i) THEN NoLoopSeen ELSE LoopSeen(W, Target(W.graph, x, i))

StackPositions == {-1, 0}

RECURSIVE StackEntries(_)
StackEntries(k) == IF k = 0 THEN 0 ELSE StackEntries(k - 1) + Len(loop[k].parent_loops)

NumStitches == StackEntries(Len(loop))

RECURSIVE FloatRecords(_)
FloatRecords(k) ==
    IF k = 0 THEN 0
    ELSE FloatRecords(k - 1) + Cardinality(loop[k].back_floats) + Cardinality(loop[k].front_floats)

\* every registration is recorded under both orders of the float's ends
NumFloatMarks == FloatRecords(Len(loop)) \div 2

Init ==
    /\ loop = <<>>
    /\ yarn = [y \in Yarns |-> NewYarn]
    /\ graph = NewKnitGraph
    /\ call = [op |-> "init", err |-> "none", seen |-> NoLoopSeen]
    /\ client_wale = Wale_init(None)
    /\ client_course = <<>>

MakeLoopOnEnd(y) ==
    /\ Len(loop) < MaxLoops
    /\ Becomes(make_loop_on_end(World, y))
    /\ call' = [op |-> "make_loop_on_end", err |-> "none", seen |-> NoLoopSeen]

\* Knit_Graph.add_loop called by the client with a loop that is on its yarn
AddLoop(o) ==
    /\ yarn[o.yarn].loop_graph.nodes[o.loop_id] = o
    /\ Becomes([World EXCEPT !.graph = add_loop(@, o)])
    /\ call' = [op |-> "add_loop", err |-> "none", seen |-> NoLoopSeen]

AddYarn(y) ==
    /\ Becomes([World EXCEPT !.graph = add_yarn(@, y)])
    /\ call' = [op |-> "add_yarn", err |-> "none", seen |-> NoLoopSeen]

\* the call op ends with the outcome r
Returns(op, r, seen) ==
    /\ Becomes(r.w)
    /\ call' = [op |-> op, err |-> r.err, seen |-> seen]

ConnectLoops(p, c, d, pos) ==
    /\ (ContainsLoop(graph, p) /\ ContainsLoop(graph, c)) => NumStitches < MaxStitches
    /\ Returns("connect_loops", connect_loops(World, p, c, d, pos), NoLoopSeen)

RemoveLoop(x) ==
    \E new_last \in NewLastLoops(World, x, -1) :
        Returns("remove_loop", remove_loop(World, x, -1, new_last), Seen(World, x, -1))

RemoveLoopId(i) ==
    \E new_last \in NewLastLoops(World, None, i) :
        Returns("remove_loop", remove_loop(World, None, i, new_last), Seen(World, None, i))

AddCrossing(left_loop, right_loop, crossing_direction) ==
    /\ Cardinality(graph.braid_graph) < MaxCrossings
    /\ graph.stitch_graph.nodes[left_loop.loop_id] = left_loop
    /\ graph.stitch_graph.nodes[right_loop.loop_id] = right_loop
    /\ left_loop # right_loop
    /\ Becomes([World EXCEPT !.graph.braid_graph =
                    Braid_add_crossing(@, left_loop, right_loop, crossing_direction)])
    /\ call' = [op |-> "add_crossing", err |-> "none", seen |-> NoLoopSeen]

AddLoopInFrontOfFloat(y, x, u, v) ==
    /\ NumFloatMarks < MaxFloatMarks
    /\ Returns("add_loop_in_front_of_float", Yarn_add_loop_in_front_of_float(World, y, x, u, v), NoLoopSeen)

AddLoopBehindFloat(y, x, u, v) ==
    /\ NumFloatMarks < MaxFloatMarks
    /\ Returns("add_loop_behind_float", Yarn_add_loop_behind_float(World, y, x, u, v), NoLoopSeen)

\* Yarn.insert_loop called by the client with a newly constructed Loop whose
\* id is not on the yarn; prior is a loop of the yarn, or None when omitted
InsertLoop(y, loop_id, prior) ==
    /\ Len(loop) < MaxLoops
    /\ yarn[y].loop_graph.nodes[loop_id] = None
    /\ IF prior = None THEN TRUE ELSE yarn[y].loop_graph.nodes[prior.loop_id] = prior
    /\ Becomes([World EXCEPT !.loop = Append(@, NewLoop(loop_id, y)),
                             !.yarn[y] = insert_loop(@, [loop_id |-> loop_id, yarn |-> y, n |-> Len(loop) + 1], prior)])
    /\ call' = [op |-> "insert_loop", err |-> "none",
                seen |-> [NoLoopSeen EXCEPT !.loop = [loop_id |-> loop_id, yarn |-> y, n |-> Len(loop) + 1]]]

\* Yarn.remove_loop called by the client with a loop of the yarn
YarnRemoveLoop(y, x) ==
    /\ yarn[y].loop_graph.nodes[x.loop_id] = x
    /\ Returns("Yarn.remove_loop", Yarn_remove_loop(World, y, x), NoLoopSeen)

\* Knit_Graph.get_courses called by the client: the state is as before
GetCourses ==
    /\ Becomes(World)
    /\ call' = [op |-> "get_courses", err |-> "none", seen |-> NoLoopSeen, courses |-> get_courses(World)]

\* one more loop of the cast-on row
CastOn ==
    /\ Len(loop) < MaxSwatchLoops
    /\ NoStitches(loop)
    /\ Becomes(make_loop_on_end(World, "Y1"))
    /\ call' = [op |-> "make_loop_on_end", err |-> "none", seen |-> NoLoopSeen]

\* one more loop of a row above the cast-on row, pulled through the loop
\* with serial k of the row below
Knit(k) ==
    /\ Len(loop) < MaxSwatchLoops
    /\ Len(loop) >= 1
    /\ k \in RowBelow(loop)
    /\ Returns("connect_loops", KnitStitch(World, "Y1", Obj(k)), NoLoopSeen)

\* Knit_Graph.get_wale_groups called by the client: the state is as before
GetWaleGroups ==
    /\ Becomes(World)
    /\ call' = [op |-> "get_wale_groups", err |-> "none", seen |-> NoLoopSeen, groups |-> get_wale_groups(World)]

\* Wale.add_loop_to_end called by the client on its Wale
WaleAddLoopToEnd(o, d) ==
    /\ Len(client_wale.stitches.edges) < MaxWaleEdges
    /\ client_wale' = Wale_add_loop_to_end(client_wale, o, d)
    /\ call' = [op |-> "Wale.add_loop_to_end", err |-> "none", seen |-> NoLoopSeen]
    /\ UNCHANGED <<loop, yarn, graph, client_course>>

\* Wale.add_loop_to_beginning called by the client on its Wale
WaleAddLoopToBeginning(o, d) ==
    /\ Len(client_wale.stitches.edges) < MaxWaleEdges
    /\ client_wale' = Wale_add_loop_to_beginning(client_wale, o, d)
    /\ call' = [op |-> "Wale.add_loop_to_beginning", err |-> "none", seen |-> NoLoopSeen]
    /\ UNCHANGED <<loop, yarn, graph, client_course>>

\* the call split_wale(x) ends with the outcome r
SplitReturns(x, r) ==
    /\ call' = [op |-> "split_wale", err |-> r.err, seen |-> NoLoopSeen,
                split_loop |-> x, first |-> r.first, second |-> r.second]
    /\ UNCHANGED <<loop, yarn, graph, client_wale, client_course>>

\* Wale.split_wale called by the client on its Wale: the Wale is as before
SplitWale(x) == SplitReturns(x, split_wale(client_wale, x))

\* the call op(u, v) on the loop x ends with the loops L
LoopMarked(op, L, x, u, v) ==
    /\ loop' = L
    /\ call' = [op |-> op, err |-> "none", seen |-> NoLoopSeen, x |-> x, u |-> u, v |-> v]
    /\ UNCHANGED <<yarn, graph, client_wale, client_course>>

\* Loop.add_loop_in_front_of_float called by the client on the loop x
LoopAddInFrontOfFloat(x, u, v) ==
    /\ NumFloatMarks < MaxFloatMarks
    /\ LoopMarked("Loop.add_loop_in_front_of_float", Loop_add_loop_in_front_of_float(loop, x, u, v), x, u, v)

\* Loop.add_loop_behind_float called by the client on the loop x
LoopAddBehindFloat(x, u, v) ==
    /\ NumFloatMarks < MaxFloatMarks
    /\ LoopMarked("Loop.add_loop_behind_float", Loop_add_loop_behind_float(loop, x, u, v), x, u, v)

\* the call add_loop on the Course of the client ends with the outcome r
CourseReturns(r) ==
    /\ client_course' = r.course
    /\ call' = [op |-> "Course.add_loop", err |-> r.err, seen |-> NoLoopSeen]
    /\ UNCHANGED <<loop, yarn, graph, client_wale>>

\* Course.add_loop called by the client on its Course
CourseAddLoop(x, index) ==
    /\ Len(client_course) < MaxCourseLoops
    /\ CourseReturns(Course_add_loop_at(loop, client_course, x, index))

\* the call get_loops_over_courses() on the group ends with the outcome r
LayeringReturns(group, r) ==
    /\ call' = [op |-> "get_loops_over_courses", err |-> r.err, seen |-> NoLoopSeen,
                group |-> group, courses |-> r.val]
    /\ UNCHANGED <<loop, yarn, graph, client_wale, client_course>>

\* Wale_Group(wale, knit_graph).get_loops_over_courses() called by the client
\* with its Wale
GetLoopsOverCourses ==
    /\ client_wale.first_loop # None
    /\ ~has_parent_loops(loop, client_wale.first_loop)
    /\ LayeringReturns(Wale_Group_init(client_wale), get_loops_over_courses(Wale_Group_init(client_wale)))

\* one yarn of the graph: loops, stitches and removals
Next ==
    \/ \E y \in {"Y1"} : Len(loop) < MaxStitchLoops /\ MakeLoopOnEnd(y)
    \/ \E p, c \in AllLoops, d \in Pull_Direction, pos \in StackPositions : ConnectLoops(p, c, d, pos)
    \/ \E x \in AllLoops : RemoveLoop(x)
    \/ \E i \in Ids : RemoveLoopId(i)

Spec == Init /\ [][Next]_vars

\* all yarns, no stitches: loops made, added and removed
LoopNext ==
    \/ \E y \in Yarns : Len(loop) < MaxStitchLoops /\ MakeLoopOnEnd(y)
    \/ \E o \in AllLoops : AddLoop(o)
    \/ \E x \in AllLoops : RemoveLoop(x)
    \/ \E i \in Ids : RemoveLoopId(i)

SpecLoop == Init /\ [][LoopNext]_vars

\* the same, and yarns added to the graph before they hold a loop
YarnNext ==
    \/ \E y \in Yarns : Len(loop) < MaxStitchLoops /\ MakeLoopOnEnd(y)
    \/ \E o \in AllLoops : AddLoop(o)
    \/ \E y \in Yarns : AddYarn(y)
    \/ \E x \in AllLoops : RemoveLoop(x)
    \/ \E i \in Ids : RemoveLoopId(i)

SpecYarn == Init /\ [][YarnNext]_vars

\* one yarn of the graph: crossings and removals
BraidNext ==
    \/ \E y \in {"Y1"} : MakeLoopOnEnd(y)
    \/ \E l, r \in AllLoops, d \in Crossing_Direction : AddCrossing(l, r, d)
    \/ \E x \in AllLoops : RemoveLoop(x)
    \/ \E i \in Ids : RemoveLoopId(i)

SpecBraid == Init /\ [][BraidNext]_vars

\* one yarn of the graph: floats and removals
FloatNext ==
    \/ \E y \in {"Y1"} : MakeLoopOnEnd(y)
    \/ \E y \in {"Y1"}, x, u, v \in AllLoops : AddLoopInFrontOfFloat(y, x, u, v)
    \/ \E y \in {"Y1"}, x, u, v \in AllLoops : AddLoopBehindFloat(y, x, u, v)
    \/ \E x \in AllLoops : RemoveLoop(x)
    \/ \E i \in Ids : RemoveLoopId(i)

SpecFloat == Init /\ [][FloatNext]_vars

\* a yarn with no graph: loops made at the end, inserted after any loop, removed
InsertNext ==
    \/ \E y \in {"F"} : next_loop_id(World, y) \in Ids /\ MakeLoopOnEnd(y)
    \/ \E y \in {"F"}, i \in Ids, prior \in AllLoops \cup {None} : InsertLoop(y, i, prior)
    \/ \E y \in {"F"}, x \in AllLoops : YarnRemoveLoop(y, x)

SpecInsert == Init /\ [][InsertNext]_vars

\* one yarn of the graph: loops, knit stitches, removals and the courses
CourseNext ==
    \/ \E y \in {"Y1"} : Len(loop) < MaxStitchLoops /\ MakeLoopOnEnd(y)
    \/ \E p, c \in AllLoops, pos \in StackPositions : ConnectLoops(p, c, "BtF", pos)
    \/ \E x \in AllLoops : RemoveLoop(x)
    \/ GetCourses

SpecCourse == Init /\ [][CourseNext]_vars

\* a swatch built row by row, its courses and its wale groups
SwatchNext ==
    \/ CastOn
    \/ \E k \in 1 .. Len(loop) : Knit(k)
    \/ GetCourses
    \/ GetWaleGroups

SpecSwatch == Init /\ [][SwatchNext]_vars

\* one yarn of the graph: loops, knit stitches, removals and the wale groups
WaleNext ==
    \/ \E y \in {"Y1"} : Len(loop) < MaxStitchLoops /\ MakeLoopOnEnd(y)
    \/ \E p, c \in AllLoops, pos \in StackPositions : ConnectLoops(p, c, "BtF", pos)
    \/ \E x \in AllLoops : RemoveLoop(x)
    \/ GetWaleGroups

SpecWale == Init /\ [][WaleNext]_vars

\* the loops of a yarn and one loop of another yarn, whose id is the id of
\* one of them, and a Wale built from them and split
SplitNext ==
    \/ \E y \in {"F"} : MakeLoopOnEnd(y)
    \/ \E y \in {"Y1"} : ~has_loop(graph) /\ MakeLoopOnEnd(y)
    \/ \E o \in AllLoops, d \in Pull_Direction : WaleAddLoopToEnd(o, d)
    \/ \E o \in AllLoops, d \in Pull_Direction : WaleAddLoopToBeginning(o, d)
    \/ \E x \in AllLoops : SplitWale(x)

SpecSplit == Init /\ [][SplitNext]_vars

\* one yarn of the graph: floats registered on the loops themselves
LoopFloatNext ==
    \/ \E y \in {"Y1"} : Len(loop) < MaxStitchLoops /\ MakeLoopOnEnd(y)
    \/ \E x, u, v \in AllLoops : LoopAddInFrontOfFloat(x, u, v)
    \/ \E x, u, v \in AllLoops : LoopAddBehindFloat(x, u, v)

SpecLoopFloat == Init /\ [][LoopFloatNext]_vars

\* one yarn of the graph: loops and knit stitches, and then a Course that
\* the client builds from the loops
CourseBuildNext ==
    \/ \E y \in {"Y1"} : client_course = <<>> /\ Len(loop) < MaxStitchLoops /\ MakeLoopOnEnd(y)
    \/ \E p, c \in AllLoops, pos \in StackPositions : client_course = <<>> /\ ConnectLoops(p, c, "BtF", pos)
    \/ \E x \in AllLoops, index \in {-1, 0} : CourseAddLoop(x, index)

SpecCourseBuild == Init /\ [][CourseBuildNext]_vars

\* loops on one yarn, a Wale built by the client and the layering of the
\* group of that Wale
GroupNext ==
    \/ \E y \in {"Y1"} : MakeLoopOnEnd(y)
    \/ \E o \in AllLoops, d \in Pull_Direction : WaleAddLoopToEnd(o, d)
    \/ \E o \in AllLoops, d \in Pull_Direction : WaleAddLoopToBeginning(o, d)
    \/ GetLoopsOverCourses

SpecGroup == Init /\ [][GroupNext]_vars

-----------------------------------------------------------------------------
(* The loops of the graph: the objects stored as the nodes of the stitch   *)
(* graph.                                                                  *)

GraphLoops == {graph.stitch_graph.nodes[i] : i \in Ids} \ {None}

\* x is a loop of the graph K: the node that K stores for the id of x is x
IsLoopOf(K, x) == K.stitch_graph.nodes[x.loop_id] = x

\* the occupants registered on the floats of all yarns, in front and behind
FloatOccupants(G) == UNION {G.edges[i].attr.Front_Loops \cup G.edges[i].attr.Back_Loops : i \in 1 .. Len(G.edges)}

Occupants(Ys) == UNION {FloatOccupants(Ys[y].loop_graph) : y \in Yarns}

\* p is in the parent stack of c, among the loops L
InStackOf(L, p, c) == \E j \in 1 .. Len(L[c.n].parent_loops) : LoopEq(L[c.n].parent_loops[j], p)

InStack(p, c) == InStackOf(loop, p, c)

\* C1: for all loops p and c of the graph the stitch graph has the edge
\* (p, c) iff p is in c.parent_loops, and every loop in the parent stack of a
\* loop of the graph is in the graph
C1_EdgeIffParent ==
    /\ \A p, c \in GraphLoops : has_stitch_edge(graph, p, c) <=> InStack(p, c)
    /\ \A c \in GraphLoops : \A j \in 1 .. Len(loop[c.n].parent_loops) :
           ContainsLoop(graph, loop[c.n].parent_loops[j])

\* C2: last_loop is the loop with the greatest id among the loops of the
\* graph, and it is None exactly when the graph has no loops
C2_LastLoopIsMax ==
    IF GraphLoops = {}
    THEN graph.last_loop = None
    ELSE /\ graph.last_loop # None
         /\ ContainsLoop(graph, graph.last_loop)
         /\ \A e \in GraphLoops : ~LoopLt(graph.last_loop, e)

\* C3: remove_loop of a loop of the graph leaves last_loop as it was unless
\* the removed loop was the last loop; then the new last_loop is a maximum
\* of the last loops of the yarns of the graph that still hold a loop, and
\* None when no yarn holds a loop
C3_LastLoopAfterRemove ==
    [][\A x \in AllLoops :
          (ContainsLoop(graph, x) /\ RemoveLoop(x)) =>
              IF graph.last_loop # None /\ LoopEq(x, graph.last_loop)
              THEN IF YarnLastLoops(World)' = {}
                   THEN graph'.last_loop = None
                   ELSE graph'.last_loop \in MaxOf(YarnLastLoops(World)')
              ELSE graph'.last_loop = graph.last_loop]_vars

\* C4: two loops made on yarns of the graph never have the same id, whether
\* or not the earlier one has been removed since
C4_IdsNeverReused ==
    \A j, k \in 1 .. Len(loop) :
        (j # k /\ knit_graph(loop[j].yarn) /\ knit_graph(loop[k].yarn)) => loop[j].loop_id # loop[k].loop_id

\* C5: make_loop_on_end on a yarn of a graph gives the new loop the id 0 when
\* the graph has no loops and last_loop.loop_id + 1 otherwise, an id no loop
\* of the graph has, on a yarn with no graph the id 0 when the yarn is empty
\* and the yarn's last_loop.loop_id + 1 otherwise; the loop is appended after
\* the yarn's previous last loop and, on a yarn of a graph, is in the graph
C5_MakeLoopOnEnd ==
    [][\A y \in Yarns :
          MakeLoopOnEnd(y) =>
              LET o == [loop_id |-> loop'[Len(loop')].loop_id, yarn |-> loop'[Len(loop')].yarn, n |-> Len(loop')]
              IN  /\ o.yarn = y
                  /\ yarn'[y].last_loop = o
                  /\ yarn[y].last_loop # None => next_loop(yarn'[y], yarn[y].last_loop) = o
                  /\ knit_graph(y) =>
                        /\ o.loop_id = IF GraphLoops = {} THEN 0 ELSE graph.last_loop.loop_id + 1
                        /\ \A e \in GraphLoops : e.loop_id # o.loop_id
                        /\ ContainsLoop(graph', o)
                        /\ graph'.loop_ids[o.loop_id] = o
                  /\ ~knit_graph(y) =>
                        o.loop_id = IF YarnLen(yarn[y]) = 0 THEN 0 ELSE yarn[y].last_loop.loop_id + 1]_vars

\* C6: connect_loops(p, c, d, pos) raises KeyError and changes nothing when
\* p or c is no loop of the graph; otherwise it returns and the stitch graph
\* has the edge (p, c) with the pull direction d
C6_ConnectLoops ==
    [][\A p, c \in AllLoops, d \in Pull_Direction, pos \in StackPositions :
          ConnectLoops(p, c, d, pos) =>
              IF IsLoopOf(graph, p) /\ IsLoopOf(graph, c)
              THEN /\ call'.err = "none"
                   /\ has_stitch_edge(graph', p, c)
                   /\ EdgeData(graph'.stitch_graph, p, c).pull_direction = d
              ELSE /\ call'.err = "KeyError"
                   /\ UNCHANGED <<loop, yarn, graph>>]_vars

\* C7: remove_loop(x) raises KeyError and changes nothing when x is a loop
\* that is not in the graph, or an id that no loop of the graph has
C7_RemoveAbsent ==
    [][/\ \A x \in AllLoops :
            (~IsLoopOf(graph, x) /\ RemoveLoop(x)) =>
                (call'.err = "KeyError" /\ UNCHANGED <<loop, yarn, graph>>)
       /\ \A i \in Ids :
            (~ContainsId(graph, i) /\ RemoveLoopId(i)) =>
                (call'.err = "KeyError" /\ UNCHANGED <<loop, yarn, graph>>)]_vars

\* x is a loop of the graph with one loop in its parent stack and one child
OneParentOneChild(x) ==
    IsLoopOf(graph, x) /\ Len(loop[x.n].parent_loops) = 1 /\ Len(Successors(graph.stitch_graph, x)) = 1

\* p has no child but x
OnlyChild(x, p) ==
    \A j \in 1 .. Len(Successors(graph.stitch_graph, p)) : LoopEq(Successors(graph.stitch_graph, p)[j], x)

\* C8 as stated: remove_loop of a loop of the graph with exactly one parent
\* and exactly one child returns and leaves the child with an empty parent
\* stack, the parent without a child when the loop was its only child, one
\* node less in the stitch graph and one loop less on the loop's yarn
C8_RemoveMiddleLoop ==
    [][\A x \in AllLoops :
          (OneParentOneChild(x) /\ RemoveLoop(x)) =>
              /\ call'.err = "none"
              /\ loop'[get_child_loop(graph, x).n].parent_loops = <<>>
              /\ OnlyChild(x, loop[x.n].parent_loops[1]) => ~has_child_loop(graph', loop[x.n].parent_loops[1])
              /\ NumNodes(graph'.stitch_graph) = NumNodes(graph.stitch_graph) - 1
              /\ YarnLen(yarn'[x.yarn]) = YarnLen(yarn[x.yarn]) - 1]_vars

\* C8 amended: the child's parent stack loses the removed loop and keeps the
\* child's other parents (it is empty when the removed loop was the child's
\* only parent); the rest as stated
C8_RemoveMiddleLoopKeepsOtherParents ==
    [][\A x \in AllLoops :
          (OneParentOneChild(x) /\ RemoveLoop(x)) =>
              /\ call'.err = "none"
              /\ ~InStackOf(loop', x, get_child_loop(graph, x))
              /\ \A q \in AllLoops :
                     ~LoopEq(q, x) =>
                         (InStackOf(loop', q, get_child_loop(graph, x)) <=> InStack(q, get_child_loop(graph, x)))
              /\ (\A q \in AllLoops : InStack(q, get_child_loop(graph, x)) => LoopEq(q, x)) =>
                     loop'[get_child_loop(graph, x).n].parent_loops = <<>>
              /\ OnlyChild(x, loop[x.n].parent_loops[1]) => ~has_child_loop(graph', loop[x.n].parent_loops[1])
              /\ NumNodes(graph'.stitch_graph) = NumNodes(graph.stitch_graph) - 1
              /\ YarnLen(yarn'[x.yarn]) = YarnLen(yarn[x.yarn]) - 1]_vars

\* a loop with one parent and one child has been removed, and its child still
\* has a parent
C8_Witness ==
    /\ call.op = "remove_loop" /\ call.err = "none"
    /\ Len(call.seen.parent_loops) = 1 /\ Len(call.seen.children) = 1
    /\ ~ContainsLoop(graph, call.seen.loop)
    /\ IsLoopOf(graph, call.seen.children[1])
    /\ has_parent_loops(loop, call.seen.children[1])

\* the loops on the front and on the back of the two floats of the yarn Y
\* that end at m
FrontAt(Y, u, m, v) == get_loops_in_front_of_float(Y, u, m) \cup get_loops_in_front_of_float(Y, m, v)

BackAt(Y, u, m, v) == get_loops_behind_float(Y, u, m) \cup get_loops_behind_float(Y, m, v)

\* the set after holds every loop of the set before but m, and no loop that
\* before does not hold (x in s, for a Python set s, is InLoops(x, s))
KeptBut(before, after, m) ==
    /\ \A x \in SetDiscard(before, m) : InLoops(x, after)
    /\ \A x \in after : InLoops(x, before)

\* C9: when remove_loop removes a loop m of the graph that has the yarn
\* neighbours u and v, it returns, the yarn has the float (u, v), every loop
\* other than m that was in front of (behind) the float (u, m) or (m, v) is
\* in front of (behind) the float (u, v), the float (u, v) has no occupant
\* that was not on that side of one of the two floats, and its occupants
\* record that they are in front of (behind) it
C9_FloatsReanchored ==
    [][\A m \in AllLoops :
          (/\ IsLoopOf(graph, m)
           /\ prior_loop(yarn[m.yarn], m) # None
           /\ next_loop(yarn[m.yarn], m) # None
           /\ RemoveLoop(m)) =>
              /\ call'.err = "none"
              /\ has_float(yarn'[m.yarn], prior_loop(yarn[m.yarn], m), next_loop(yarn[m.yarn], m))
              /\ KeptBut(FrontAt(yarn[m.yarn], prior_loop(yarn[m.yarn], m), m, next_loop(yarn[m.yarn], m)),
                         get_loops_in_front_of_float(yarn'[m.yarn], prior_loop(yarn[m.yarn], m),
                                                     next_loop(yarn[m.yarn], m)), m)
              /\ KeptBut(BackAt(yarn[m.yarn], prior_loop(yarn[m.yarn], m), m, next_loop(yarn[m.yarn], m)),
                         get_loops_behind_float(yarn'[m.yarn], prior_loop(yarn[m.yarn], m),
                                                next_loop(yarn[m.yarn], m)), m)
              /\ \A x \in SetDiscard(get_loops_in_front_of_float(yarn'[m.yarn], prior_loop(yarn[m.yarn], m),
                                                                  next_loop(yarn[m.yarn], m)), m) :
                     is_in_front_of_float(loop', x, prior_loop(yarn[m.yarn], m), next_loop(yarn[m.yarn], m))
              /\ \A x \in SetDiscard(get_loops_behind_float(yarn'[m.yarn], prior_loop(yarn[m.yarn], m),
                                                             next_loop(yarn[m.yarn], m)), m) :
                     is_behind_float(loop', x, prior_loop(yarn[m.yarn], m), next_loop(yarn[m.yarn], m))]_vars

\* a loop between two yarn neighbours has been removed and the float that
\* joins the neighbours has an occupant in front and an occupant behind
C9_Witness ==
    /\ call.op = "remove_loop" /\ call.err = "none"
    /\ call.seen.prior # None /\ call.seen.next # None
    /\ has_float(yarn[call.seen.loop.yarn], call.seen.prior, call.seen.next)
    /\ get_loops_in_front_of_float(yarn[call.seen.loop.yarn], call.seen.prior, call.seen.next) # {}
    /\ get_loops_behind_float(yarn[call.seen.loop.yarn], call.seen.prior, call.seen.next) # {}

\* C10: after remove_loop(l) has returned l is no node of the stitch graph,
\* its id is not in the id index, it is not on its yarn, no crossing names
\* it, it is no occupant of a float and it is in no parent stack of a loop
\* of the graph
C10_Retracted ==
    [][\A l \in AllLoops :
          (ContainsLoop(graph, l) /\ RemoveLoop(l) /\ call'.err = "none") =>
              /\ ~ContainsLoop(graph', l)
              /\ ~ContainsId(graph', l.loop_id)
              /\ ~HasNode(yarn'[l.yarn].loop_graph, l)
              /\ Braid_remove_loop(graph'.braid_graph, l) = graph'.braid_graph
              /\ ~InLoops(l, Occupants(yarn'))
              /\ \A c \in GraphLoops' : ~InStackOf(loop', l, c)]_vars

-----------------------------------------------------------------------------
\* the loops on the yarn Y: the objects stored as the nodes of its loop graph
YarnLoops(Y) == {Y.loop_graph.nodes[i] : i \in Ids} \ {None}

\* the ids one yarn-edge away from the ids of S
YarnStep(G, S) == {G.edges[i].v.loop_id : i \in {j \in 1 .. Len(G.edges) : G.edges[j].u.loop_id \in S}}

\* the ids reached from the ids of S along at most k yarn-edges
RECURSIVE YarnReach(_, _, _)
YarnReach(G, S, k) == IF k = 0 THEN S ELSE YarnReach(G, S \cup YarnStep(G, S), k - 1)

\* x has its place on a simple path from first_loop to last_loop
OnSimplePath(Y, x) ==
    /\ Len(Successors(Y.loop_graph, x)) <= 1
    /\ Len(Predecessors(Y.loop_graph, x)) <= 1
    /\ Len(Predecessors(Y.loop_graph, x)) = 0 <=> LoopEq(x, Y.first_loop)
    /\ Len(Successors(Y.loop_graph, x)) = 0 <=> LoopEq(x, Y.last_loop)
    /\ x.loop_id \in YarnReach(Y.loop_graph, {Y.first_loop.loop_id}, Cardinality(Ids))

\* C11: after any make_loop_on_end, insert_loop (after any loop of the yarn)
\* and loop removals, every loop on a yarn has at most one successor and at
\* most one predecessor, first_loop is the only loop without predecessor,
\* last_loop the only loop without successor, and every loop on the yarn is
\* reachable from first_loop.
C11_YarnIsSimplePath == \A y \in Yarns : \A x \in YarnLoops(yarn[y]) : OnSimplePath(yarn[y], x)

\* C12: insert_loop on a yarn that has loops makes the inserted loop the
\* yarn's last_loop exactly when prior_loop was the last loop before the call
\* (an omitted prior_loop counts as the last loop); otherwise last_loop and
\* first_loop are unchanged.
C12_InsertUpdatesLast ==
    [][\A y \in Yarns, i \in Ids, prior \in AllLoops \cup {None} :
        (has_loops(yarn[y]) /\ InsertLoop(y, i, prior)) =>
            IF prior = None \/ LoopEq(prior, yarn[y].last_loop)
            THEN yarn'[y].last_loop = call'.seen.loop
            ELSE /\ yarn'[y].last_loop # call'.seen.loop
                 /\ yarn'[y].last_loop = yarn[y].last_loop
                 /\ yarn'[y].first_loop = yarn[y].first_loop]_vars

\* a loop was inserted after a loop that was not the last one
C12_Witness ==
    /\ call.op = "insert_loop"
    /\ yarn[call.seen.loop.yarn].loop_graph.nodes[call.seen.loop.loop_id] = call.seen.loop
    /\ Len(Predecessors(yarn[call.seen.loop.yarn].loop_graph, call.seen.loop)) = 1
    /\ yarn[call.seen.loop.yarn].last_loop # call.seen.loop

-----------------------------------------------------------------------------
\* the course holds a loop together with one of the loops of its parent stack
HoldsParentAndChild(L, course) ==
    \E a, b \in 1 .. Len(course) : InStackOf(L, course[a], course[b])

\* C13: in every state reached by loop creation, connect_loops between any
\* two present loops and remove_loop, no course returned by get_courses
\* contains both a loop and one of that loop's registered parents.
C13_NoParentInCourse ==
    \A k \in 1 .. Len(get_courses(World)) : ~HoldsParentAndChild(loop, get_courses(World)[k])

\* the loops of all courses, in the order returned
RECURSIVE Concat(_)
Concat(courses) == IF courses = <<>> THEN <<>> ELSE Head(courses) \o Concat(Tail(courses))

\* C14: the courses returned by get_courses, concatenated in the order
\* returned, list every loop present in the graph exactly once, in strictly
\* ascending id order.
C14_CoursesPartition ==
    /\ {Concat(get_courses(World))[j] : j \in 1 .. Len(Concat(get_courses(World)))} = GraphLoops
    /\ Len(Concat(get_courses(World))) = Cardinality(GraphLoops)
    /\ \A j \in 1 .. Len(Concat(get_courses(World))) - 1 :
           LoopLt(Concat(get_courses(World))[j], Concat(get_courses(World))[j + 1])

\* get_courses returned several courses of a graph with three loops
C14_Witness ==
    /\ call.op = "get_courses"
    /\ Len(call.courses) >= 2
    /\ Len(Concat(call.courses)) = 3
    /\ call.courses = get_courses(World)

\* C15: get_courses never returns an empty course; in particular it returns
\* no course at all for a graph without loops.
C15_NoEmptyCourse ==
    /\ \A k \in 1 .. Len(get_courses(World)) : get_courses(World)[k] # <<>>
    /\ GraphLoops = {} => get_courses(World) = <<>>

-----------------------------------------------------------------------------
\* the rows of the swatch are complete: h + 1 rows of Width(loop) loops
Rectangular == Len(loop) >= 1 /\ Len(loop) % Width(loop) = 0

\* C16: for a rectangular swatch of width w >= 1 and height h >= 0 built row
\* by row, each new loop pulled through one loop of the row below,
\* get_courses returns exactly h + 1 courses, and a second call without a
\* mutation in between returns as many.
C16_CourseCount ==
    /\ Rectangular => Len(get_courses(World)) = Len(loop) \div Width(loop)
    /\ call.op = "get_courses" => Len(get_courses(World)) = Len(call.courses)

\* get_courses was called on a swatch of at least two rows of at least two loops
C16_Witness ==
    /\ call.op = "get_courses"
    /\ Rectangular
    /\ Width(loop) >= 2
    /\ Len(call.courses) >= 2
    /\ Len(call.courses) = Len(loop) \div Width(loop)

\* a tube with Width(loop) \div 2 loops per bed: every loop above the
\* cast-on round is pulled through the loop at the same place of the round below
Tube ==
    /\ Len(loop) >= 1
    /\ Width(loop) % 2 = 0
    /\ \A k \in 1 .. Len(loop) : k > Width(loop) => loop[k].parent_loops = <<Obj(k - Width(loop))>>

\* C17: in a tube swatch every two chronologically adjacent courses returned
\* by get_courses are in round with each other and not in row.
C17_TubeInRound ==
    Tube => \A k \in 1 .. Len(get_courses(World)) - 1 :
                /\ in_round_with(loop, get_courses(World)[k], get_courses(World)[k + 1]) = "True"
                /\ in_row_with(loop, get_courses(World)[k], get_courses(World)[k + 1]) = "False"

\* get_courses was called on a tube of two loops per bed and at least two rounds
C17_Witness ==
    /\ call.op = "get_courses"
    /\ Tube
    /\ Width(loop) = 4
    /\ Len(loop) = 8
    /\ Len(call.courses) = 2

-----------------------------------------------------------------------------
\* every loop below the top row has exactly one child: the swatch is made of
\* Width(loop) columns
Columns == \A k \in 1 .. Len(loop) : k <= Len(loop) - Width(loop) => Len(Successors(graph.stitch_graph, Obj(k))) = 1

NoOutgoingStitch(K, x) == \A i \in 1 .. Len(K.stitch_graph.edges) : ~LoopEq(K.stitch_graph.edges[i].u, x)

-----------------------------------------------------------------------------
(* Wale.split_wale *)

\* the loops of w in order are a path: each is stitched to the next one and
\* there is no other stitch; it runs from first_loop to last_loop
PathWale(w) ==
    /\ Wale_iter(w) # <<>>
    /\ Len(Wale_iter(w)) = Wale_len(w)
    /\ Len(w.stitches.edges) = Wale_len(w) - 1
    /\ \A i \in 1 .. (Len(Wale_iter(w)) - 1) : HasEdge(w.stitches, Wale_iter(w)[i], Wale_iter(w)[i + 1])
    /\ w.first_loop = Wale_iter(w)[1]
    /\ w.last_loop = Wale_iter(w)[Len(Wale_iter(w))]

\* part is a wale of the loops order[from .. to] whose stitches have the pull directions they have in w
PartOf(w, part, from, to) ==
    /\ PathWale(part)
    /\ Wale_iter(part) = SubSeq(Wale_iter(w), from, to)
    /\ \A i \in from .. (to - 1) :
           get_stitch_pull_direction(part, Wale_iter(w)[i], Wale_iter(w)[i + 1]) =
           get_stitch_pull_direction(w, Wale_iter(w)[i], Wale_iter(w)[i + 1])

\* C21: split_wale(li) on a wale l1..ln, 1 < i <= n, returns the wales
\* l1..li and li..ln, which share li and keep every pull direction; for a
\* loop that is not in the wale it returns the wale itself and None
C21_SplitWale ==
    (call.op = "split_wale" /\ PathWale(client_wale)) =>
        /\ call.err = "none"
        /\ \A i \in 2 .. Len(Wale_iter(client_wale)) :
               Wale_iter(client_wale)[i] = call.split_loop =>
                   /\ PartOf(client_wale, call.first, 1, i)
                   /\ PartOf(client_wale, call.second, i, Len(Wale_iter(client_wale)))
                   /\ call.first.last_loop = call.split_loop
                   /\ call.second.first_loop = call.split_loop
        /\ (\A i \in 1 .. Len(Wale_iter(client_wale)) : Wale_iter(client_wale)[i] # call.split_loop) =>
               (call.first = client_wale /\ call.second = NoWale)

\* a wale of four loops with stitches of both pull directions was split at its second loop
C21_Witness ==
    /\ call.op = "split_wale"
    /\ PathWale(client_wale)
    /\ Len(Wale_iter(client_wale)) = 4
    /\ Wale_iter(client_wale)[2] = call.split_loop
    /\ Len(Wale_iter(call.second)) = 3
    /\ \E i, j \in 1 .. 3 : client_wale.stitches.edges[i].attr # client_wale.stitches.edges[j].attr

-----------------------------------------------------------------------------
(* Lookups by loop and by id *)

\* C22: the id index and the nodes of the stitch graph hold the same loops,
\* and has_stitch_edge and get_stitch_edge answer for two loops what they
\* answer for the ids of the two loops
C22_IdsAndLoopsAgree ==
    /\ \A i \in Ids : Contains(graph, None, i).val <=> graph.stitch_graph.nodes[i] # None
    /\ \A i \in Ids : Contains(graph, None, i).val => getitem(graph, i).val = graph.stitch_graph.nodes[i]
    /\ \A p, c \in AllLoops :
           /\ has_stitch_edge_by(graph, p, -1, c, -1) = has_stitch_edge_by(graph, None, p.loop_id, None, c.loop_id)
           /\ get_stitch_edge_by(graph, p, -1, c, -1) = get_stitch_edge_by(graph, None, p.loop_id, None, c.loop_id)

\* C23: `item in graph` returns true or false and never raises, for a loop,
\* for an id, and for a pair of loops or ids whether or not they are present
C23_ContainsIsTotal ==
    /\ \A x \in AllLoops : Contains(graph, x, -1).err = "none"
    /\ \A i \in Ids : Contains(graph, None, i).err = "none"
    /\ \A px, cx \in AllLoops \cup {None}, pi, ci \in Ids : ContainsPair(graph, px, pi, cx, ci).err = "none"

-----------------------------------------------------------------------------
(* The stitch graph as a directed acyclic graph *)

\* the loop with the id i is reached from itself along one or more stitch edges
OnStitchCycle(K, i) == i \in YarnReach(K.stitch_graph, YarnStep(K.stitch_graph, {i}), Cardinality(Ids))

\* C24: after any connect_loops and remove_loop calls the stitch graph has
\* no directed cycle and no edge from a loop to itself
C24_StitchGraphAcyclic == \A i \in Ids : ~OnStitchCycle(graph, i)

-----------------------------------------------------------------------------
(* The upward closure of a wale group *)

\* C25: in every reachable state the construction of the wale group of a
\* terminal loop ends: the walks up the parent stacks end and the closure
\* processes finitely many wales
C25_ClosureTerminates == \A t \in terminal_loops(graph) : build_group_from_top_wale(World, t)

-----------------------------------------------------------------------------
(* Floats registered on a loop *)

\* the call before registered the float of the same two loops on the same loop, in the other order
SameFloatAgain(op) ==
    /\ call.op = op
    /\ call'.x = call.x
    /\ call'.u = call.v
    /\ call'.v = call.u

\* C26: after add_loop_in_front_of_float(u, v) the loop answers
\* is_in_front_of_float for (u, v) and for (v, u), likewise for
\* add_loop_behind_float and is_behind_float; registering (v, u) after
\* (u, v) leaves the state as it was
C26_FloatRegistrationSymmetric ==
    [][/\ call'.op = "Loop.add_loop_in_front_of_float" =>
              /\ is_in_front_of_float(loop', call'.x, call'.u, call'.v)
              /\ is_in_front_of_float(loop', call'.x, call'.v, call'.u)
              /\ SameFloatAgain("Loop.add_loop_in_front_of_float") => loop' = loop
       /\ call'.op = "Loop.add_loop_behind_float" =>
              /\ is_behind_float(loop', call'.x, call'.u, call'.v)
              /\ is_behind_float(loop', call'.x, call'.v, call'.u)
              /\ SameFloatAgain("Loop.add_loop_behind_float") => loop' = loop]_vars

\* the float of two different loops was registered in front of a loop
\* that is also behind a float
C26_Witness ==
    /\ call.op = "Loop.add_loop_in_front_of_float"
    /\ call.u # call.v
    /\ loop[call.x.n].back_floats = {<<call.u.loop_id, call.v.loop_id>>, <<call.v.loop_id, call.u.loop_id>>}
    /\ loop[call.x.n].front_floats # {}

-----------------------------------------------------------------------------
(* The float accessors of Yarn *)

\* C27: has_float, get_loops_in_front_of_float and get_loops_behind_float
\* answer for (u, v) what they answer for (v, u)
C27_FloatAccessorsSymmetric ==
    \A y \in Yarns, u, v \in AllLoops :
        /\ has_float(yarn[y], u, v) = has_float(yarn[y], v, u)
        /\ get_loops_in_front_of_float(yarn[y], u, v) = get_loops_in_front_of_float(yarn[y], v, u)
        /\ get_loops_behind_float(yarn[y], u, v) = get_loops_behind_float(yarn[y], v, u)

-----------------------------------------------------------------------------
(* A Course built by a caller *)

\* C28: add_loop rejects a loop that has a parent in the course and leaves
\* the course as it was, so a course built with add_loop never holds a loop
\* together with one of its parents, whichever was added first, and never
\* holds a loop twice
C28_ManualCourseInvariant ==
    /\ call.op = "Course.add_loop" /\ call.err # "none" => call.err = "AssertionError"
    /\ ~HoldsParentAndChild(loop, client_course)
    /\ \A a, b \in 1 .. Len(client_course) : LoopEq(client_course[a], client_course[b]) => a = b

-----------------------------------------------------------------------------
(* The yarns of the graph *)

\* the yarn y holds a loop that is a loop of the graph
HoldsGraphLoop(y) == \E x \in GraphLoops : yarn[y].loop_graph.nodes[x.loop_id] = x

\* C29: after any add_loop, add_yarn, make_loop_on_end and remove_loop calls
\* the yarns of the graph are exactly the yarns that hold a loop of the graph
C29_YarnsHoldLoops == graph.yarns = {y \in Yarns : HoldsGraphLoop(y)}

-----------------------------------------------------------------------------
(* The length of a wale group *)

Largest(S) == CHOOSE m \in S : \A n \in S : n <= m

\* the largest number of loops, wale by wale, on a path of the wale graph
\* that starts with the wale w and visits no wale of seen
RECURSIVE LongestFrom(_, _, _)
LongestFrom(wales, w, seen) ==
    Len(w) + Largest({LongestFrom(wales, v, seen \cup {v}) : v \in WaleSuccessors(wales, w) \ seen} \cup {0})

\* the largest number of loops on a path of the wale graph
LongestPath(wales) ==
    IF wales = {} THEN 0 ELSE Largest({LongestFrom(wales, w, {w}) : w \in wales})

-----------------------------------------------------------------------------
(* The layering of a wale group *)

\* the stitches of the group that enter the j-th loop of the course
EntersAt(G, course) ==
    {<<i, j>> \in (1 .. Len(G.edges)) \X (1 .. Len(course)) : LoopEq(G.edges[i].v, course[j])}

\* upper is the list of the stitch predecessors in G of the loops of lower
PredecessorsOfLayer(G, lower, upper) ==
    /\ Len(upper) = Cardinality(EntersAt(G, lower))
    /\ {upper[j] : j \in 1 .. Len(upper)} = {G.edges[p[1]].u : p \in EntersAt(G, lower)}

\* C31: get_loops_over_courses of a wale group returns a layering from the
\* terminal loop: the first layer is the terminal loop alone, every further
\* layer lists the stitch predecessors in the group of the loops of the
\* layer before, no layer is empty, and the loops of the last layer have no
\* predecessors in the group.
C31_LayeringFromTerminalLoop ==
    call.op = "get_loops_over_courses" =>
        /\ call.err = "none"
        /\ Len(call.courses) >= 1
        /\ call.courses[1] = <<call.group.terminal_wale.last_loop>>
        /\ \A k \in 1 .. Len(call.courses) - 1 :
               PredecessorsOfLayer(call.group.stitch_graph, call.courses[k], call.courses[k + 1])
        /\ \A k \in 1 .. Len(call.courses) : call.courses[k] # <<>>
        /\ EntersAt(call.group.stitch_graph, call.courses[Len(call.courses)]) = {}

-----------------------------------------------------------------------------
(* Where get_courses starts a course *)

\* a registered parent of x is among the loops of run (Course.__contains__
\* compares loops by their ids)
ParentAmong(x, run) ==
    \E k \in 1 .. Len(loop[x.n].parent_loops), m \in 1 .. Len(run) :
        loop[x.n].parent_loops[k].loop_id = run[m].loop_id

\* the course under construction when the j-th loop of the c-th returned
\* course is visited
UnderConstruction(courses, c, j) ==
    IF j > 1 THEN SubSeq(courses[c], 1, j - 1) ELSE IF c > 1 THEN courses[c - 1] ELSE <<>>

\* C32: in get_courses a loop is the first loop of a course if and only if
\* it is the lowest-id loop of the graph or one of its registered parents is
\* in the course under construction when it is visited; so a returned
\* course is a maximal run of consecutive loops, in id order, in which no
\* loop has a parent that precedes it in the run.
C32_CourseStartsAtParent ==
    \A c \in 1 .. Len(get_courses(World)) : \A j \in 1 .. Len(get_courses(World)[c]) :
        /\ (j = 1) <=> \/ \A x \in GraphLoops : get_courses(World)[c][j].loop_id <= x.loop_id
                       \/ ParentAmong(get_courses(World)[c][j], UnderConstruction(get_courses(World), c, j))
        /\ ~ParentAmong(get_courses(World)[c][j], SubSeq(get_courses(World)[c], 1, j - 1))
        /\ (j = 1 /\ c > 1) => ParentAmong(get_courses(World)[c][j], get_courses(World)[c - 1])

\* get_courses returned a course of two loops and then a course that starts
\* with a child of the first of them
C32_Witness ==
    /\ call.op = "get_courses"
    /\ call.courses = get_courses(World)
    /\ Len(call.courses) = 2
    /\ Len(call.courses[1]) = 2
    /\ \E k \in 1 .. Len(loop[call.courses[2][1].n].parent_loops) :
           loop[call.courses[2][1].n].parent_loops[k] = call.courses[1][1]

-----------------------------------------------------------------------------
(* The two halves of a split wale *)

\* the places after the first at which the split loop is found in the wale
FoundAt == {i \in 2 .. Len(Wale_iter(client_wale)) : Wale_iter(client_wale)[i] = call.split_loop}

\* C33: split_wale(loop), for a loop found in the wale after its first loop,
\* returns a first half that ends just before the loop, the loop preceding
\* it being the last loop of the first half, and a second half that starts
\* at the loop.
C33_FirstHalfEndsBefore ==
    (call.op = "split_wale" /\ PathWale(client_wale)) =>
        \A i \in FoundAt :
            /\ call.err = "none"
            /\ call.first.last_loop = Wale_iter(client_wale)[i - 1]
            /\ Wale_iter(call.first) = SubSeq(Wale_iter(client_wale), 1, i - 1)
            /\ call.second.first_loop = call.split_loop

\* C33 as the code has it: the first half ends with the loop itself, which
\* is its last loop, and the second half starts at the loop.
C33_FirstHalfEndsAtLoop ==
    (call.op = "split_wale" /\ PathWale(client_wale)) =>
        \A i \in FoundAt :
            /\ call.err = "none"
            /\ call.first.last_loop = call.split_loop
            /\ Wale_iter(call.first) = SubSeq(Wale_iter(client_wale), 1, i)
            /\ call.second.first_loop = call.split_loop
            /\ Wale_iter(call.second)[1] = call.split_loop

\* a wale of three loops was split at its last loop: the first half has all
\* three loops, the second half the last loop alone
C33_Witness ==
    /\ call.op = "split_wale"
    /\ PathWale(client_wale)
    /\ Len(Wale_iter(client_wale)) = 3
    /\ FoundAt = {3}
    /\ Len(Wale_iter(call.first)) = 3
    /\ Len(Wale_iter(call.second)) = 1

-----------------------------------------------------------------------------
(* Float registration on the yarn with the endpoints in either order *)

\* the call that registers x at the float (u, v) of the yarn y has ended
\* without error; other is what the call with (v, u) leaves: where the yarn
\* has the float from v to u the world is other, where it has no float
\* between u and v the world is as before
EitherOrder(y, u, v, other) ==
    /\ call'.err = "none"
    /\ (~has_float(yarn[y], u, v) /\ has_float(yarn[y], v, u)) =>
           (loop' = other.loop /\ yarn' = other.yarn /\ graph' = other.graph)
    /\ (~has_float(yarn[y], u, v) /\ ~has_float(yarn[y], v, u)) => UNCHANGED <<loop, yarn, graph>>

\* C34: Yarn.add_loop_in_front_of_float(x, u, v) and
\* Yarn.add_loop_behind_float(x, u, v) take the endpoints of the float in
\* either order: where the yarn stores the float as (v, u), the call with
\* (u, v) ends without error in the state that the call with (v, u) leaves;
\* where u and v are not adjacent on the yarn in either order, the call
\* changes nothing and raises no error.
C34_FloatEndpointsInEitherOrder ==
    [][\A y \in {"Y1"}, x, u, v \in AllLoops :
          /\ AddLoopInFrontOfFloat(y, x, u, v) =>
                 EitherOrder(y, u, v, Yarn_add_loop_in_front_of_float(World, y, x, v, u).w)
          /\ AddLoopBehindFloat(y, x, u, v) =>
                 EitherOrder(y, u, v, Yarn_add_loop_behind_float(World, y, x, v, u).w)]_vars

-----------------------------------------------------------------------------
(* Parent stacks without duplicates *)

\* the stitch edges of the graph that enter the loop c
EdgesInto(c) == {i \in 1 .. Len(graph.stitch_graph.edges) : Into(graph.stitch_graph.edges[i], c)}

\* C35: in every state reached by connect_loops and remove_loop, two calls
\* of connect_loops with the same parent and child among them, the parent
\* stack of every loop of the graph has no entry twice, and is as long as
\* there are stitch edges that enter the loop.
C35_NoDuplicateParents ==
    \A c \in GraphLoops :
        /\ \A j, k \in 1 .. Len(loop[c.n].parent_loops) :
               LoopEq(loop[c.n].parent_loops[j], loop[c.n].parent_loops[k]) => j = k
        /\ Len(loop[c.n].parent_loops) = Cardinality(EdgesInto(c))

-----------------------------------------------------------------------------
(* Adjacent courses *)

\* C36: in the courses that get_courses returns, the first loop of every
\* course after the first has a registered parent in the course right
\* before it; so in_round_with and in_row_with of two adjacent courses skip
\* no loop of the next course, never index past its end and return a
\* boolean.
C36_AdjacentCoursesCompare ==
    \A c \in 2 .. Len(get_courses(World)) :
        /\ ParentAmong(get_courses(World)[c][1], get_courses(World)[c - 1])
        /\ 1 \in WithParents(loop, get_courses(World)[c])
        /\ NextStart(loop, get_courses(World)[c]) = get_courses(World)[c][1]
        /\ in_round_with(loop, get_courses(World)[c - 1], get_courses(World)[c]) \in {"True", "False"}
        /\ in_row_with(loop, get_courses(World)[c - 1], get_courses(World)[c]) \in {"True", "False"}

\* get_courses returned a course of two loops and a course pulled through
\* the last of them: the two are in a row and not in a round
C36_Witness ==
    /\ call.op = "get_courses"
    /\ call.courses = get_courses(World)
    /\ Len(call.courses) = 2
    /\ Len(call.courses[1]) = 2
    /\ in_row_with(loop, call.courses[1], call.courses[2]) = "True"
    /\ in_round_with(loop, call.courses[1], call.courses[2]) = "False"

-----------------------------------------------------------------------------
(* Occupants of floats: the sets of the yarn and the records of the loops *)

\* u and v are adjacent loops on the yarn y, in either order
Adjacent(y, u, v) == has_float(yarn[y], u, v) \/ has_float(yarn[y], v, u)

\* C37: in every state reached by float registration and loop removal the
\* occupant sets of the floats of the yarn and the float records of the
\* occupants agree: a loop x of the graph is in the front (behind) set of
\* the float between u and v if and only if x records that it is in front
\* of (behind) the float between u and v and u and v are adjacent loops on
\* the yarn; a set holds a loop as Python sets do, by its id.
C37_OccupantsAgree ==
    \A y \in {"Y1"}, x, u, v \in GraphLoops :
        /\ InLoops(x, get_loops_in_front_of_float(yarn[y], u, v))
               <=> (is_in_front_of_float(loop, x, u, v) /\ Adjacent(y, u, v))
        /\ InLoops(x, get_loops_behind_float(yarn[y], u, v))
               <=> (is_behind_float(loop, x, u, v) /\ Adjacent(y, u, v))

====
